---- MODULE Spec2Model ----
(***************************************************************************)
(* Model of the Stock Advisors native shell (src-tauri/src/lib.rs): the    *)
(* three command endpoints, the tray menu handler with its two toggle      *)
(* items, the "tray-event" emission and the window-close policy.           *)
(*                                                                         *)
(* Strings the code inspects (menu item labels) are sequences of           *)
(* one-character strings, so that contains("OFF") is computed.             *)
(* Every host call whose Result the code discards (text, set_text, emit,   *)
(* show, set_focus, hide) may succeed or fail; a failed call changes       *)
(* nothing in the host.                                                    *)
(***************************************************************************)
EXTENDS Naturals, Sequences, FiniteSets

VARIABLES
    running,            \* the process has not exited
    exitCode,           \* <<>> while running, <<code>> after exit
    positionMonitorText,\* label of the position_monitor menu item
    newsMonitorText,    \* label of the news_monitor menu item
    mainWindow,         \* the webview window with label "main"
    emitted,            \* payloads the last handler passed to emit, in order
    delivered,          \* those of them the host delivered to the frontend
    reply,              \* value the last command returned to the frontend
    last,               \* the last handler that ran and its host-call outcomes
    activations         \* number of activations of each toggle item so far

vars == <<running, exitCode, positionMonitorText, newsMonitorText, mainWindow,
          emitted, delivered, reply, last, activations>>

----------------------------------------------------------------------------
(* Bounds *)

MaxActivations == 3

Names == {"", "Ada"}

UnknownIds == {"", "settings"}

----------------------------------------------------------------------------
(* String literals of the source, as character sequences *)

PositionMonitorOn ==
    <<"P","o","s","i","t","i","o","n"," ","M","o","n","i","t","o","r",":"," ","O","N">>

PositionMonitorOff ==
    <<"P","o","s","i","t","i","o","n"," ","M","o","n","i","t","o","r",":"," ","O","F","F">>

NewsMonitorOn ==
    <<"N","e","w","s"," ","M","o","n","i","t","o","r",":"," ","O","N">>

NewsMonitorOff ==
    <<"N","e","w","s"," ","M","o","n","i","t","o","r",":"," ","O","F","F">>

OFF == <<"O","F","F">>

TrayEventChannel == "tray-event"

KnownIds == {"show_window", "run_analysis", "position_monitor", "news_monitor", "quit"}

Toggles == {"position_monitor", "news_monitor"}

\* str::contains: some window of s equals pat
Contains(s, pat) ==
    \E i \in 1..(Len(s) + 1) :
        /\ i + Len(pat) - 1 <= Len(s)
        /\ SubSeq(s, i, i + Len(pat) - 1) = pat

\* Result<String>::unwrap_or_default on the label read
UnwrapOrDefault(ok, text) == IF ok THEN text ELSE <<>>

\* Option<bool>
None == <<>>
Some(b) == <<b>>

TrayEventPayload(action, value) ==
    [channel |-> TrayEventChannel, action |-> action, value |-> value]

----------------------------------------------------------------------------
(* Host operations on the window and the menu items *)

NoWindow == [exists |-> FALSE, visible |-> FALSE, focused |-> FALSE]

\* app.get_webview_window("main"): Some(w) iff the window exists
GetWebviewWindow == mainWindow.exists

Show(w, ok) == IF ok THEN [w EXCEPT !.visible = TRUE] ELSE w

SetFocus(w, ok) == IF ok THEN [w EXCEPT !.focused = TRUE] ELSE w

Hide(w, ok) == IF ok THEN [w EXCEPT !.visible = FALSE] ELSE w

\* what the host does with a close request once the handler returned: the
\* window is destroyed unless the handler called api.prevent_close()
FinishClose(w, prevented) == IF prevented THEN w ELSE NoWindow

SetText(old, new, ok) == IF ok THEN new ELSE old

\* the handler that ran and the outcome of each fallible host call it made
Ran(kind, id) ==
    [kind |-> kind, id |-> id, textOk |-> TRUE, setTextOk |-> TRUE,
     emitOk |-> TRUE, showOk |-> TRUE, focusOk |-> TRUE, hideOk |-> TRUE,
     preventClose |-> FALSE]

NoReply == <<>>

----------------------------------------------------------------------------
Init ==
    /\ running = TRUE
    /\ exitCode = <<>>
    /\ positionMonitorText = PositionMonitorOn
    /\ newsMonitorText = NewsMonitorOn
    /\ \E e \in BOOLEAN, v \in BOOLEAN, f \in BOOLEAN :
          mainWindow = IF e THEN [exists |-> TRUE, visible |-> v, focused |-> f]
                            ELSE NoWindow
    /\ emitted = <<>>
    /\ delivered = <<>>
    /\ reply = NoReply
    /\ last = Ran("setup", "")
    /\ activations = [t \in Toggles |-> 0]

----------------------------------------------------------------------------
(* Command endpoints *)

greet(name) ==
    /\ running
    /\ reply' = <<"Hello, ", name, "! Welcome to Stock Advisors.">>
    /\ last' = Ran("command", "greet")
    /\ emitted' = <<>>
    /\ delivered' = <<>>
    /\ UNCHANGED <<running, exitCode, positionMonitorText, newsMonitorText,
                   mainWindow, activations>>

get_app_version ==
    /\ running
    /\ reply' = <<"CARGO_PKG_VERSION">>
    /\ last' = Ran("command", "get_app_version")
    /\ emitted' = <<>>
    /\ delivered' = <<>>
    /\ UNCHANGED <<running, exitCode, positionMonitorText, newsMonitorText,
                   mainWindow, activations>>

\* variant: the window lookup is unwrapped, a missing window panics
show_main_window_unwrap ==
    /\ running
    /\ \E showOk \in BOOLEAN, focusOk \in BOOLEAN :
          IF GetWebviewWindow
          THEN /\ mainWindow' = SetFocus(Show(mainWindow, showOk), focusOk)
               /\ last' = [Ran("command", "show_main_window")
                              EXCEPT !.showOk = showOk, !.focusOk = focusOk]
               /\ reply' = <<"()">>
               /\ UNCHANGED <<running, exitCode>>
          ELSE /\ mainWindow' = mainWindow
               /\ last' = Ran("command", "show_main_window")
               /\ reply' = NoReply
               /\ running' = FALSE
               /\ exitCode' = <<101>>
    /\ emitted' = <<>>
    /\ delivered' = <<>>
    /\ UNCHANGED <<positionMonitorText, newsMonitorText, activations>>

show_main_window ==
    /\ running
    /\ \E showOk \in BOOLEAN, focusOk \in BOOLEAN :
          IF GetWebviewWindow
          THEN /\ mainWindow' = SetFocus(Show(mainWindow, showOk), focusOk)
               /\ last' = [Ran("command", "show_main_window")
                              EXCEPT !.showOk = showOk, !.focusOk = focusOk]
          ELSE /\ mainWindow' = mainWindow
               /\ last' = Ran("command", "show_main_window")
    /\ reply' = <<"()">>
    /\ emitted' = <<>>
    /\ delivered' = <<>>
    /\ UNCHANGED <<running, exitCode, positionMonitorText, newsMonitorText,
                   activations>>

----------------------------------------------------------------------------
(* Tray menu handler, one action per match arm *)

show_window_arm ==
    /\ running
    /\ \E showOk \in BOOLEAN, focusOk \in BOOLEAN :
          IF GetWebviewWindow
          THEN /\ mainWindow' = SetFocus(Show(mainWindow, showOk), focusOk)
               /\ last' = [Ran("menu", "show_window")
                              EXCEPT !.showOk = showOk, !.focusOk = focusOk]
          ELSE /\ mainWindow' = mainWindow
               /\ last' = Ran("menu", "show_window")
    /\ reply' = NoReply
    /\ emitted' = <<>>
    /\ delivered' = <<>>
    /\ UNCHANGED <<running, exitCode, positionMonitorText, newsMonitorText,
                   activations>>

\* variant: the payload carries Some(false) instead of None
run_analysis_arm_some_false ==
    /\ running
    /\ \E emitOk \in BOOLEAN :
          LET payload == TrayEventPayload("run_analysis", Some(FALSE)) IN
          /\ emitted' = <<payload>>
          /\ delivered' = IF emitOk THEN <<payload>> ELSE <<>>
          /\ last' = [Ran("menu", "run_analysis") EXCEPT !.emitOk = emitOk]
    /\ reply' = NoReply
    /\ UNCHANGED <<running, exitCode, positionMonitorText, newsMonitorText,
                   mainWindow, activations>>

run_analysis_arm ==
    /\ running
    /\ \E emitOk \in BOOLEAN :
          LET payload == TrayEventPayload("run_analysis", None) IN
          /\ emitted' = <<payload>>
          /\ delivered' = IF emitOk THEN <<payload>> ELSE <<>>
          /\ last' = [Ran("menu", "run_analysis") EXCEPT !.emitOk = emitOk]
    /\ reply' = NoReply
    /\ UNCHANGED <<running, exitCode, positionMonitorText, newsMonitorText,
                   mainWindow, activations>>

\* variant: the emit result is unwrapped, a failed emit panics
position_monitor_arm_emit_unwrap ==
    /\ running
    /\ activations["position_monitor"] < MaxActivations
    /\ \E textOk \in BOOLEAN, setTextOk \in BOOLEAN, emitOk \in BOOLEAN :
          LET current_text == UnwrapOrDefault(textOk, positionMonitorText)
              turning_on   == Contains(current_text, OFF)
              new_label    == IF turning_on THEN PositionMonitorOn
                                            ELSE PositionMonitorOff
              payload      == TrayEventPayload("position_monitor", Some(turning_on))
          IN
          /\ positionMonitorText' = SetText(positionMonitorText, new_label, setTextOk)
          /\ emitted' = <<payload>>
          /\ delivered' = IF emitOk THEN <<payload>> ELSE <<>>
          /\ last' = [Ran("menu", "position_monitor")
                         EXCEPT !.textOk = textOk, !.setTextOk = setTextOk,
                                !.emitOk = emitOk]
          /\ running' = emitOk
          /\ exitCode' = IF emitOk THEN exitCode ELSE <<101>>
    /\ activations' = [activations EXCEPT !["position_monitor"] = @ + 1]
    /\ reply' = NoReply
    /\ UNCHANGED <<newsMonitorText, mainWindow>>

position_monitor_arm ==
    /\ running
    /\ activations["position_monitor"] < MaxActivations
    /\ \E textOk \in BOOLEAN, setTextOk \in BOOLEAN, emitOk \in BOOLEAN :
          LET current_text == UnwrapOrDefault(textOk, positionMonitorText)
              turning_on   == Contains(current_text, OFF)
              new_label    == IF turning_on THEN PositionMonitorOn
                                            ELSE PositionMonitorOff
              payload      == TrayEventPayload("position_monitor", Some(turning_on))
          IN
          /\ positionMonitorText' = SetText(positionMonitorText, new_label, setTextOk)
          /\ emitted' = <<payload>>
          /\ delivered' = IF emitOk THEN <<payload>> ELSE <<>>
          /\ last' = [Ran("menu", "position_monitor")
                         EXCEPT !.textOk = textOk, !.setTextOk = setTextOk,
                                !.emitOk = emitOk]
    /\ activations' = [activations EXCEPT !["position_monitor"] = @ + 1]
    /\ reply' = NoReply
    /\ UNCHANGED <<running, exitCode, newsMonitorText, mainWindow>>

\* variant: the new label is written to the position_monitor item
news_monitor_arm_wrong_item ==
    /\ running
    /\ activations["news_monitor"] < MaxActivations
    /\ \E textOk \in BOOLEAN, setTextOk \in BOOLEAN, emitOk \in BOOLEAN :
          LET current_text == UnwrapOrDefault(textOk, newsMonitorText)
              turning_on   == Contains(current_text, OFF)
              new_label    == IF turning_on THEN NewsMonitorOn
                                            ELSE NewsMonitorOff
              payload      == TrayEventPayload("news_monitor", Some(turning_on))
          IN
          /\ positionMonitorText' = SetText(positionMonitorText, new_label, setTextOk)
          /\ emitted' = <<payload>>
          /\ delivered' = IF emitOk THEN <<payload>> ELSE <<>>
          /\ last' = [Ran("menu", "news_monitor")
                         EXCEPT !.textOk = textOk, !.setTextOk = setTextOk,
                                !.emitOk = emitOk]
    /\ activations' = [activations EXCEPT !["news_monitor"] = @ + 1]
    /\ reply' = NoReply
    /\ UNCHANGED <<running, exitCode, newsMonitorText, mainWindow>>

news_monitor_arm ==
    /\ running
    /\ activations["news_monitor"] < MaxActivations
    /\ \E textOk \in BOOLEAN, setTextOk \in BOOLEAN, emitOk \in BOOLEAN :
          LET current_text == UnwrapOrDefault(textOk, newsMonitorText)
              turning_on   == Contains(current_text, OFF)
              new_label    == IF turning_on THEN NewsMonitorOn
                                            ELSE NewsMonitorOff
              payload      == TrayEventPayload("news_monitor", Some(turning_on))
          IN
          /\ newsMonitorText' = SetText(newsMonitorText, new_label, setTextOk)
          /\ emitted' = <<payload>>
          /\ delivered' = IF emitOk THEN <<payload>> ELSE <<>>
          /\ last' = [Ran("menu", "news_monitor")
                         EXCEPT !.textOk = textOk, !.setTextOk = setTextOk,
                                !.emitOk = emitOk]
    /\ activations' = [activations EXCEPT !["news_monitor"] = @ + 1]
    /\ reply' = NoReply
    /\ UNCHANGED <<running, exitCode, positionMonitorText, mainWindow>>

\* variant: the frontend is notified before the exit
quit_arm_notifies ==
    /\ running
    /\ running' = FALSE
    /\ exitCode' = <<0>>
    /\ last' = Ran("menu", "quit")
    /\ reply' = NoReply
    /\ emitted' = <<TrayEventPayload("quit", None)>>
    /\ delivered' = emitted'
    /\ UNCHANGED <<positionMonitorText, newsMonitorText, mainWindow, activations>>

quit_arm ==
    /\ running
    /\ running' = FALSE
    /\ exitCode' = <<0>>
    /\ last' = Ran("menu", "quit")
    /\ reply' = NoReply
    /\ emitted' = <<>>
    /\ delivered' = <<>>
    /\ UNCHANGED <<positionMonitorText, newsMonitorText, mainWindow, activations>>

\* variant: the default arm forwards the id to the frontend
default_arm_forwards(id) ==
    /\ running
    /\ id \notin KnownIds
    /\ last' = Ran("menu", id)
    /\ reply' = NoReply
    /\ emitted' = <<TrayEventPayload(id, None)>>
    /\ delivered' = emitted'
    /\ UNCHANGED <<running, exitCode, positionMonitorText, newsMonitorText,
                   mainWindow, activations>>

default_arm(id) ==
    /\ running
    /\ id \notin KnownIds
    /\ last' = Ran("menu", id)
    /\ reply' = NoReply
    /\ emitted' = <<>>
    /\ delivered' = <<>>
    /\ UNCHANGED <<running, exitCode, positionMonitorText, newsMonitorText,
                   mainWindow, activations>>

on_menu_event ==
    \/ show_window_arm
    \/ run_analysis_arm
    \/ position_monitor_arm
    \/ news_monitor_arm
    \/ quit_arm
    \/ \E id \in UnknownIds : default_arm(id)

----------------------------------------------------------------------------
(* Window event handler *)

\* variant: the close is suppressed only when the hide went through
close_requested_prevent_if_hidden ==
    /\ running
    /\ mainWindow.exists
    /\ \E hideOk \in BOOLEAN :
          LET prevented == hideOk IN
          /\ mainWindow' = FinishClose(Hide(mainWindow, hideOk), prevented)
          /\ last' = [Ran("window", "CloseRequested")
                         EXCEPT !.hideOk = hideOk, !.preventClose = prevented]
    /\ reply' = NoReply
    /\ emitted' = <<>>
    /\ delivered' = <<>>
    /\ UNCHANGED <<running, exitCode, positionMonitorText, newsMonitorText,
                   activations>>

\* variant: a close request exits the process instead of hiding the window
close_requested_exits ==
    /\ running
    /\ mainWindow.exists
    /\ running' = FALSE
    /\ exitCode' = <<0>>
    /\ last' = Ran("window", "CloseRequested")
    /\ reply' = NoReply
    /\ emitted' = <<>>
    /\ delivered' = <<>>
    /\ UNCHANGED <<positionMonitorText, newsMonitorText, mainWindow, activations>>

\* WindowEvent::CloseRequested on the main window
close_requested ==
    /\ running
    /\ mainWindow.exists
    /\ \E hideOk \in BOOLEAN :
          LET prevented == TRUE IN
          /\ mainWindow' = FinishClose(Hide(mainWindow, hideOk), prevented)
          /\ last' = [Ran("window", "CloseRequested")
                         EXCEPT !.hideOk = hideOk, !.preventClose = prevented]
    /\ reply' = NoReply
    /\ emitted' = <<>>
    /\ delivered' = <<>>
    /\ UNCHANGED <<running, exitCode, positionMonitorText, newsMonitorText,
                   activations>>

\* any other WindowEvent: the if-let does not match
other_window_event ==
    /\ running
    /\ mainWindow.exists
    /\ last' = Ran("window", "Other")
    /\ reply' = NoReply
    /\ emitted' = <<>>
    /\ delivered' = <<>>
    /\ UNCHANGED <<running, exitCode, positionMonitorText, newsMonitorText,
                   mainWindow, activations>>

on_window_event ==
    \/ close_requested
    \/ other_window_event

----------------------------------------------------------------------------
Next ==
    \/ \E name \in Names : greet(name)
    \/ get_app_version
    \/ show_main_window
    \/ on_menu_event
    \/ on_window_event

Spec == Init /\ [][Next]_vars

----------------------------------------------------------------------------
(* Properties *)

OnSuffix == <<":", " ", "O", "N">>

EndsWith(s, suf) ==
    /\ Len(suf) <= Len(s)
    /\ SubSeq(s, Len(s) - Len(suf) + 1, Len(s)) = suf

LabelOf(id) ==
    IF id = "position_monitor" THEN positionMonitorText ELSE newsMonitorText

OnLabel(id) ==
    IF id = "position_monitor" THEN PositionMonitorOn ELSE NewsMonitorOn

OffLabel(id) ==
    IF id = "position_monitor" THEN PositionMonitorOff ELSE NewsMonitorOff

LabelsUnchanged ==
    /\ positionMonitorText' = positionMonitorText
    /\ newsMonitorText' = newsMonitorText

\* C1: after every activation of a toggle item exactly one payload has been
\* passed to emit on "tray-event", its action is the item's id, and its value
\* is true iff the item's label now ends in ": ON" -- whatever the outcome of
\* the label read and the label write.
C1_ToggleEventMatchesLabel ==
    (last.kind = "menu" /\ last.id \in Toggles) =>
        /\ Len(emitted) = 1
        /\ emitted[1].channel = "tray-event"
        /\ emitted[1].action = last.id
        /\ (emitted[1].value = Some(TRUE)) <=> EndsWith(LabelOf(last.id), OnSuffix)

\* C2: a toggle's label is its ": ON" text after an even number of
\* activations of that item and its ": OFF" text after an odd number,
\* whatever else happened in between.
C2_ToggleParity ==
    \A t \in Toggles :
        LabelOf(t) = IF activations[t] % 2 = 0 THEN OnLabel(t) ELSE OffLabel(t)

\* C3: a close request never destroys the window: the handler always
\* suppresses the default close, the window is hidden whenever the hide call
\* went through and is left as it was when the hide call failed, the window
\* stays present in every later step, and a show_main_window command or a
\* "show_window" activation whose show call goes through makes it visible.
C3_CloseHidesNeverDestroys ==
    [][ /\ (last'.kind = "window" /\ last'.id = "CloseRequested") =>
              /\ last'.preventClose
              /\ mainWindow'.exists
              /\ running'
              /\ last'.hideOk => mainWindow' = [mainWindow EXCEPT !.visible = FALSE]
              /\ ~last'.hideOk => mainWindow' = mainWindow
        /\ mainWindow.exists => mainWindow'.exists
        /\ ( /\ last'.id \in {"show_main_window", "show_window"}
             /\ mainWindow.exists
             /\ last'.showOk ) => mainWindow'.visible
      ]_vars

C3_Witness ==
    /\ last.kind = "window"
    /\ last.id = "CloseRequested"
    /\ last.hideOk
    /\ mainWindow.exists
    /\ ~mainWindow.visible
    /\ running

\* C4: activating "quit" ends the process with exit code 0 and, in that
\* step, passes nothing to emit and changes neither toggle label nor the
\* window.
C4_QuitExitsZeroSilently ==
    [][ (last'.kind = "menu" /\ last'.id = "quit") =>
            /\ ~running'
            /\ exitCode' = <<0>>
            /\ emitted' = <<>>
            /\ delivered' = <<>>
            /\ LabelsUnchanged
            /\ mainWindow' = mainWindow
      ]_vars

C4_Witness ==
    /\ ~running
    /\ exitCode = <<0>>
    /\ last.id = "quit"
    /\ positionMonitorText = PositionMonitorOff
    /\ mainWindow.exists
    /\ ~mainWindow.visible

\* C5: the process stops running only in a step that is the activation of
\* the "quit" menu item; every other handler, whatever its host calls
\* returned, leaves it running.
C5_OnlyQuitTerminates ==
    [][ /\ (running /\ ~running') => (last'.kind = "menu" /\ last'.id = "quit")
        /\ ~(last'.kind = "menu" /\ last'.id = "quit") => running'
      ]_vars

C5_Witness ==
    /\ running
    /\ last.kind = "window"
    /\ last.id = "CloseRequested"
    /\ ~last.hideOk
    /\ activations["position_monitor"] > 0
    /\ activations["news_monitor"] > 0

\* C6: activating "run_analysis" passes exactly one payload to emit,
\* {action: "run_analysis", value: null} on "tray-event", and leaves both
\* toggle labels as they were.
C6_RunAnalysisEmitsNull ==
    [][ (last'.kind = "menu" /\ last'.id = "run_analysis") =>
            /\ emitted' = << [channel |-> "tray-event",
                              action |-> "run_analysis", value |-> None] >>
            /\ LabelsUnchanged
      ]_vars

C6_Witness ==
    /\ last.kind = "menu"
    /\ last.id = "run_analysis"
    /\ Len(emitted) = 1
    /\ positionMonitorText = PositionMonitorOff
    /\ newsMonitorText = NewsMonitorOn
    /\ ~mainWindow.visible

\* C7: a toggle's label changes only in a step that is the activation of
\* that very item.
C7_LabelChangesOnlyOnOwnActivation ==
    [][ /\ positionMonitorText' # positionMonitorText =>
              (last'.kind = "menu" /\ last'.id = "position_monitor")
        /\ newsMonitorText' # newsMonitorText =>
              (last'.kind = "menu" /\ last'.id = "news_monitor")
      ]_vars

C7_Witness ==
    /\ last.kind = "menu"
    /\ last.id = "news_monitor"
    /\ newsMonitorText = NewsMonitorOff
    /\ positionMonitorText = PositionMonitorOn
    /\ activations["news_monitor"] = 1
    /\ activations["position_monitor"] = 2

\* C8: the show_main_window command and the "show_window" activation act
\* alike: when the "main" window exists, a show call that goes through makes
\* it visible and a set_focus call that goes through gives it focus, and
\* nothing else about it changes; when it does not exist nothing changes at
\* all.  Neither emits an event, ends the process or touches a label, and
\* the command returns unit.
C8_ShowIsBestEffort ==
    [][ (last'.id \in {"show_main_window", "show_window"}) =>
            /\ mainWindow.exists =>
                  mainWindow' = [exists  |-> TRUE,
                                 visible |-> mainWindow.visible \/ last'.showOk,
                                 focused |-> mainWindow.focused \/ last'.focusOk]
            /\ ~mainWindow.exists => mainWindow' = mainWindow
            /\ emitted' = <<>>
            /\ delivered' = <<>>
            /\ running' = running
            /\ exitCode' = exitCode
            /\ LabelsUnchanged
            /\ activations' = activations
            /\ last'.kind = "command" => reply' = <<"()">>
      ]_vars

C8_Witness ==
    /\ last.kind = "command"
    /\ last.id = "show_main_window"
    /\ ~mainWindow.exists
    /\ reply = <<"()">>
    /\ running
    /\ positionMonitorText = PositionMonitorOff

\* C9: a failed emit is swallowed: the handler has passed its one payload to
\* emit once, nothing reaches the frontend in that step or in a later step
\* that emits nothing itself, the process keeps running, and a toggle whose
\* label read and write went through has its label flipped all the same.
C9_EmitFailureSwallowed ==
    [][ /\ ( /\ last'.kind = "menu"
             /\ last'.id \in Toggles \cup {"run_analysis"}
             /\ ~last'.emitOk ) =>
                /\ running'
                /\ exitCode' = <<>>
                /\ Len(emitted') = 1
                /\ delivered' = <<>>
                /\ (last'.id = "position_monitor" /\ last'.textOk /\ last'.setTextOk) =>
                      positionMonitorText' =
                          IF positionMonitorText = PositionMonitorOn
                          THEN PositionMonitorOff ELSE PositionMonitorOn
                /\ (last'.id = "news_monitor" /\ last'.textOk /\ last'.setTextOk) =>
                      newsMonitorText' =
                          IF newsMonitorText = NewsMonitorOn
                          THEN NewsMonitorOff ELSE NewsMonitorOn
        /\ delivered' # <<>> => (last'.emitOk /\ delivered' = emitted')
        /\ ~(last'.kind = "menu" /\ last'.id \in Toggles \cup {"run_analysis"}) =>
                emitted' = <<>>
      ]_vars

C9_Witness ==
    /\ last.kind = "menu"
    /\ last.id = "position_monitor"
    /\ ~last.emitOk
    /\ last.textOk
    /\ last.setTextOk
    /\ positionMonitorText = PositionMonitorOff
    /\ delivered = <<>>
    /\ running

\* C10: a menu event with an id other than the five known ones emits
\* nothing, changes neither toggle label, leaves the window as it was and
\* does not end the process.
C10_UnknownIdIgnored ==
    [][ (last'.kind = "menu" /\ last'.id \notin KnownIds) =>
            /\ emitted' = <<>>
            /\ delivered' = <<>>
            /\ LabelsUnchanged
            /\ mainWindow' = mainWindow
            /\ running' = running
            /\ exitCode' = exitCode
      ]_vars

C10_Witness ==
    /\ last.kind = "menu"
    /\ last.id = "settings"
    /\ running
    /\ newsMonitorText = NewsMonitorOff
    /\ mainWindow.exists
    /\ mainWindow.visible

====
